---- MODULE Spec2Model ----
(***************************************************************************)
(* A model of the KnowledgeCopilot React component                         *)
(* (src/ai_knowledge_copilot.tsx): its five useState cells, the pending    *)
(* timers of handleFileUpload and streamResponse, and one action per       *)
(* handler or timer callback.                                              *)
(*                                                                         *)
(* Texts.  A question (the input field) is a sequence of one-character     *)
(* strings, so that trim(), toLowerCase() and includes() are computed as   *)
(* the code computes them.  A reply of generateAIResponse is a sequence    *)
(* of units: every literal run of a template and every interpolated value  *)
(* is one unit.  streamResponse walks that sequence index by index, as the *)
(* code walks the characters of fullResponse.                              *)
(***************************************************************************)
EXTENDS Integers, Sequences, FiniteSets, TLC

VARIABLES
    messages,      \* useState([])   line 5
    input,         \* useState('')   line 6
    isLoading,     \* useState(false) line 7
    documents,     \* useState([])   line 8
    uploadStatus,  \* useState(null) line 9
    uploads,       \* handleFileUpload calls suspended at the 1500 ms await, oldest first
    clearTimers,   \* pending setTimeout(() => setUploadStatus(null), 3000) callbacks
    streams,       \* streamResponse calls suspended at the 20 ms await, oldest first
    now,           \* the last value read from Date.now()
    crashed,       \* a state updater threw during render: the component is unmounted
    fullOf         \* history: for every turn of messages, its complete text

vars == <<messages, input, isLoading, documents, uploadStatus, uploads,
          clearTimers, streams, now, crashed, fullOf>>

----------------------------------------------------------------------------
(* Math.random() as seen after Date.now() + Math.random() is rounded to a   *)
(* double: finitely many values.                                            *)
RandomValues == {0, 1}
RandomSpan == Cardinality(RandomValues)

(* Program constants *)
Confidence == 85
Threshold == 70

----------------------------------------------------------------------------
(* Characters and strings *)

Whitespace == {" "}

LowerOf(c) ==
    CASE c = "W" -> "w"
      [] c = "H" -> "h"
      [] c = "S" -> "s"
      [] c = "E" -> "e"
      [] c = "D" -> "d"
      [] OTHER -> c

toLowerCase(s) == [k \in 1..Len(s) |-> LowerOf(s[k])]

includes(s, sub) ==
    \E k \in 0..(Len(s) - Len(sub)) :
        \A j \in 1..Len(sub) : s[k + j] = sub[j]

RECURSIVE trimStart(_)
trimStart(s) ==
    IF s # <<>> /\ Head(s) \in Whitespace THEN trimStart(Tail(s)) ELSE s

RECURSIVE trimEnd(_)
trimEnd(s) ==
    IF s # <<>> /\ s[Len(s)] \in Whitespace
    THEN trimEnd(SubSeq(s, 1, Len(s) - 1))
    ELSE s

trim_none(s) == s

trim(s) == trimEnd(trimStart(s))

RECURSIVE join(_, _)
join(names, sep) ==
    IF names = <<>> THEN <<>>
    ELSE IF Len(names) = 1 THEN <<names[1]>>
    ELSE <<names[1], sep>> \o join(Tail(names), sep)

map_name(docs) == [k \in 1..Len(docs) |-> docs[k].name]

(* The keywords generateAIResponse looks for *)
kwWhat == <<"w", "h", "a", "t">>
kwDocument == <<"d", "o", "c", "u", "m", "e", "n", "t">>
kwHow == <<"h", "o", "w">>
kwExplain == <<"e", "x", "p", "l", "a", "i", "n">>
kwSummarize == <<"s", "u", "m", "m", "a", "r", "i", "z", "e">>
kwSummary == <<"s", "u", "m", "m", "a", "r", "y">>

----------------------------------------------------------------------------
(* generateAIResponse, lines 73-102 *)

SpecificQ == " Could you be more specific about what aspect you'd like to know?"
ClarifyQ == " Could you clarify:"

(* a reply that looks at the conversation so far *)
generateAIResponse_followUp(question, history, docs) ==
    IF history # <<>>
    THEN <<"As I said before, ", ClarifyQ>>
    ELSE IF Len(docs) > 0
         THEN <<"Based on your ", ToString(Len(docs)), " uploaded document(s), I can help with that.">>
         ELSE <<"I'm your team's knowledge copilot! To get started:">>

generateAIResponse(question, history, docs) ==
    LET hasContext == Len(docs) > 0
        q == toLowerCase(question)
    IN
    IF includes(q, kwWhat) /\ includes(q, kwDocument) THEN
        IF ~hasContext
        THEN <<"I don't have any documents uploaded yet.",
               " Please upload some documents first so I can answer questions about them.">>
        ELSE <<"Based on the uploaded documents (">>
             \o join(map_name(docs), ", ")
             \o <<"), I can help you understand the content.", SpecificQ>>
    ELSE IF includes(q, kwHow) \/ includes(q, kwExplain) THEN
        IF ~hasContext
        THEN <<"I'd be happy to explain, but I don't have any reference documents yet.",
               " Upload your team's documentation and I'll provide explanations based on that context.">>
        ELSE <<"Let me break this down based on your documentation:",
               "1. **Core Concept**: From what I can see in your documents, this relates to your team's workflows and processes.",
               "2. **Implementation**: The documents suggest a systematic approach with clear steps.",
               "3. **Best Practices**: Your team's guidelines emphasize consistency and documentation.",
               "Would you like me to dive deeper into any specific aspect?">>
    ELSE IF includes(q, kwSummarize) \/ includes(q, kwSummary) THEN
        IF ~hasContext
        THEN <<"I need documents to summarize.",
               " Please upload your PDFs, Markdown files, or Notion exports first.">>
        ELSE <<"**Summary of ", docs[1].name, "**",
               "Key Points:",
               "This summary is based on RAG retrieval with 85% confidence.",
               " Would you like me to focus on a specific section?">>
    ELSE IF ~hasContext
        THEN <<"I'm your team's knowledge copilot! To get started:",
               "1. Upload your team documents (PDFs, Markdown, Notion exports)",
               "2. Ask me questions about your internal processes",
               "3. I'll provide answers with source citations",
               " What would you like to know?">>
    ELSE <<"Based on your ", ToString(Len(docs)), " uploaded document(s), I can help with that.",
           " However, I'd need a bit more context to give you the most accurate answer.",
           ClarifyQ,
           "Which specific area or process are you asking about?",
           "Are you looking for a summary or detailed steps?">>

----------------------------------------------------------------------------
(* Inputs: the files a user can select and the texts a user can type *)

fileA == [name |-> "a.md", size |-> 2048, type |-> "text/markdown"]
fileB == [name |-> "b.txt", size |-> 512, type |-> "text/plain"]
fileC == [name |-> "c.exe", size |-> 4096, type |-> "application/x-msdownload"]

FileLists == {<<fileA>>, <<fileB, fileC>>}

qWhat == <<"W", "h", "a", "t", " ", "d", "o", "c", "u", "m", "e", "n", "t">>
qHow == <<"H", "o", "w", "?">>
qSummary == <<"s", "u", "m", "m", "a", "r", "y">>
qHi == <<"h", "i">>
qBlank == <<" ">>
(* a 'how' question that also holds the keywords of the first branch *)
qHowWhat == <<"H", "o", "w", " ", "t", "o", " ", "u", "s", "e", " ", "w", "h", "a", "t", " ",
              "d", "o", "c", "u", "m", "e", "n", "t", "?">>

Inputs == {<<>>, qBlank, qWhat, qHow, qSummary, qHi, qHowWhat}

----------------------------------------------------------------------------
(* State *)

NullStatus == [type |-> "null", message |-> <<>>]

Init ==
    /\ messages = <<>>
    /\ input = <<>>
    /\ isLoading = FALSE
    /\ documents = <<>>
    /\ uploadStatus = NullStatus
    /\ uploads = <<>>
    /\ clearTimers = 0
    /\ streams = <<>>
    /\ now = 0
    /\ crashed = FALSE
    /\ fullOf = <<>>

Ids(docs) == {docs[k].id : k \in 1..Len(docs)}

RemoveAt(s, k) == SubSeq(s, 1, k - 1) \o SubSeq(s, k + 1, Len(s))

----------------------------------------------------------------------------
(* handleFileUpload, lines 20-38 *)

(* lines 21-24: up to the await *)
handleFileUpload(files) ==
    /\ ~crashed
    /\ uploadStatus' = [type |-> "loading", message |-> <<"Processing documents...">>]
    /\ uploads' = Append(uploads, files)
    /\ UNCHANGED <<messages, input, isLoading, documents, clearTimers, streams,
                   now, crashed, fullOf>>

(* lines 26-32 *)
newDocsOf_reversed(files, t, rnd) ==
    [k \in 1..Len(files) |->
        [id |-> t * RandomSpan + rnd[k],
         name |-> files[Len(files) + 1 - k].name,
         size |-> files[Len(files) + 1 - k].size,
         type |-> files[Len(files) + 1 - k].type,
         uploadedAt |-> t]]

newDocsOf(files, t, rnd) ==
    [k \in 1..Len(files) |->
        [id |-> t * RandomSpan + rnd[k],
         name |-> files[k].name,
         size |-> files[k].size,
         type |-> files[k].type,
         uploadedAt |-> t]]

(* lines 26-37: after the await. The clock is read here: t is Date.now(), which    *)
(* never runs backwards, and rnd[k] is the Math.random() of the k-th file.         *)
handleFileUploadResume(t, rnd) ==
    /\ ~crashed
    /\ uploads # <<>>
    /\ t >= now
    /\ LET files == Head(uploads)
           newDocs == newDocsOf(files, t, rnd)
       IN /\ DOMAIN rnd = 1..Len(files)
          /\ now' = t
          /\ documents' = documents \o newDocs
          /\ uploadStatus' = [type |-> "success",
                              message |-> <<ToString(Len(files)),
                                            " document(s) uploaded successfully">>]
    /\ uploads' = Tail(uploads)
    /\ clearTimers' = clearTimers + 1
    /\ UNCHANGED <<messages, input, isLoading, streams, crashed, fullOf>>

(* line 37: the 3000 ms callback *)
uploadStatusTimeout ==
    /\ ~crashed
    /\ clearTimers > 0
    /\ uploadStatus' = NullStatus
    /\ clearTimers' = clearTimers - 1
    /\ UNCHANGED <<messages, input, isLoading, documents, uploads, streams,
                   now, crashed, fullOf>>

(* removeDocument, lines 40-42; the button of line 182 exists per listed document *)
filterOut_inverted(docs, docId) == SelectSeq(docs, LAMBDA d : d.id = docId)

filterOut(docs, docId) == SelectSeq(docs, LAMBDA d : d.id # docId)

removeDocument(docId) ==
    /\ ~crashed
    /\ docId \in Ids(documents)
    /\ documents' = filterOut(documents, docId)
    /\ UNCHANGED <<messages, input, isLoading, uploadStatus, uploads, clearTimers,
                   streams, now, crashed, fullOf>>

----------------------------------------------------------------------------
(* The chat *)

(* line 290, onChange of the input; the input is disabled while isLoading (line 294) *)
setInput(v) ==
    /\ ~crashed
    /\ ~isLoading
    /\ v # input
    /\ input' = v
    /\ UNCHANGED <<messages, isLoading, documents, uploadStatus, uploads, clearTimers,
                   streams, now, crashed, fullOf>>

(* streamResponse lines 48-57 *)
assistantMessage_offByOne(docs) ==
    [role |-> "assistant",
     content |-> <<>>,
     metadata |-> [sources |-> IF Len(docs) > 1 THEN <<docs[1].name>> ELSE <<>>,
                   confidence |-> Confidence,
                   model |-> "claude-sonnet-4",
                   processingTime |-> "1.2s"]]

assistantMessage(docs) ==
    [role |-> "assistant",
     content |-> <<>>,
     metadata |-> [sources |-> IF Len(docs) > 0 THEN <<docs[1].name>> ELSE <<>>,
                   confidence |-> Confidence,
                   model |-> "claude-sonnet-4",
                   processingTime |-> "1.2s"]]

(* lines 59 and 108: [...prev, message] *)
appendMessages_drop(prev, new) == new

appendMessages_prepend(prev, new) == new \o prev

appendMessages(prev, new) == prev \o new

(* line 62: currentText += fullResponse[i], i counted from 0 *)
appendChar_assign(currentText, fullResponse, i) == <<fullResponse[i + 1]>>

appendChar(currentText, fullResponse, i) == currentText \o <<fullResponse[i + 1]>>

(* streamResponse lines 44-63: the call up to its first await. The record holds the  *)
(* locals the suspended call still reads: fullResponse, i and currentText.           *)
streamStart(question, conversationHistory, docs) ==
    LET fullResponse == generateAIResponse(question, conversationHistory, docs) IN
    [fullResponse |-> fullResponse,
     i |-> 0,
     currentText |-> appendChar(<<>>, fullResponse, 0)]

(* handleSubmit without the await of line 112: setIsLoading(false) runs in the same  *)
(* event as setIsLoading(true)                                                       *)
handleSubmit_noAwait ==
    /\ ~crashed
    /\ IF trim(input) = <<>> \/ isLoading
       THEN UNCHANGED vars
       ELSE /\ LET userMessage == [role |-> "user", content |-> input]
                   s == streamStart(input, messages, documents)
               IN /\ messages' = appendMessages(appendMessages(messages, <<userMessage>>),
                                                <<assistantMessage(documents)>>)
                  /\ streams' = Append(streams, s)
                  /\ fullOf' = fullOf \o <<input, s.fullResponse>>
            /\ input' = <<>>
            /\ isLoading' = FALSE
            /\ UNCHANGED <<documents, uploadStatus, uploads, clearTimers, now,
                           crashed>>

(* handleSubmit, lines 104-112, with the synchronous part of streamResponse: the    *)
(* guard of line 105, the user turn, and streamResponse up to its first await.      *)
(* The handler may be called in any state and returns early when its guard fails.   *)
handleSubmit ==
    /\ ~crashed
    /\ IF trim(input) = <<>> \/ isLoading
       THEN UNCHANGED vars
       ELSE /\ LET userMessage == [role |-> "user", content |-> input]
                   s == streamStart(input, messages, documents)
               IN /\ messages' = appendMessages(appendMessages(messages, <<userMessage>>),
                                                <<assistantMessage(documents)>>)
                  /\ streams' = Append(streams, s)
                  /\ fullOf' = fullOf \o <<input, s.fullResponse>>
            /\ input' = <<>>
            /\ isLoading' = TRUE
            /\ UNCHANGED <<documents, uploadStatus, uploads, clearTimers, now,
                           crashed>>

(* a tick that regenerates the reply from the documents of the current render       *)
streamResponseTick_live(k) ==
    /\ ~crashed
    /\ k \in 1..Len(streams)
    /\ LET s == streams[k]
           n == Len(messages)
       IN
       IF messages = <<>>
       THEN /\ crashed' = TRUE
            /\ UNCHANGED <<messages, input, isLoading, documents, uploadStatus, uploads,
                           clearTimers, streams, now, fullOf>>
       ELSE /\ LET live == generateAIResponse(messages[n - 1].content, <<>>, documents)
               IN messages' = [messages EXCEPT ![n].content =
                                 SubSeq(live, 1, IF s.i + 1 < Len(live) THEN s.i + 1
                                                 ELSE Len(live))]
            /\ IF s.i + 1 < Len(s.fullResponse)
               THEN /\ streams' = [streams EXCEPT ![k] =
                                     [s EXCEPT !.i = s.i + 1,
                                               !.currentText =
                                                  appendChar(s.currentText, s.fullResponse,
                                                             s.i + 1)]]
                    /\ UNCHANGED isLoading
               ELSE /\ streams' = RemoveAt(streams, k)
                    /\ isLoading' = FALSE
            /\ UNCHANGED <<input, documents, uploadStatus, uploads, clearTimers, now,
                           crashed, fullOf>>

(* streamResponse lines 61-70 and handleSubmit line 113: one 20 ms callback of the  *)
(* k-th suspended call. The updater of line 67 writes currentText into the last     *)
(* message; with no message it throws a TypeError while React renders, and with no  *)
(* error boundary the tree is unmounted. After the write the loop either appends    *)
(* the next character and suspends again, or ends, and handleSubmit resumes in the  *)
(* same task with setIsLoading(false).                                              *)
streamResponseTick(k) ==
    /\ ~crashed
    /\ k \in 1..Len(streams)
    /\ LET s == streams[k] IN
       IF messages = <<>>
       THEN /\ crashed' = TRUE
            /\ UNCHANGED <<messages, input, isLoading, documents, uploadStatus, uploads,
                           clearTimers, streams, now, fullOf>>
       ELSE /\ messages' = [messages EXCEPT ![Len(messages)].content = s.currentText]
            /\ IF s.i + 1 < Len(s.fullResponse)
               THEN /\ streams' = [streams EXCEPT ![k] =
                                     [s EXCEPT !.i = s.i + 1,
                                               !.currentText =
                                                  appendChar(s.currentText, s.fullResponse,
                                                             s.i + 1)]]
                    /\ UNCHANGED isLoading
               ELSE /\ streams' = RemoveAt(streams, k)
                    /\ isLoading' = FALSE
            /\ UNCHANGED <<input, documents, uploadStatus, uploads, clearTimers, now,
                           crashed, fullOf>>

(* clearChat, lines 123-125; the button is rendered while messages.length > 0 (line 218) *)
clearChat_resetAll ==
    /\ ~crashed
    /\ messages # <<>>
    /\ messages' = <<>>
    /\ fullOf' = <<>>
    /\ documents' = <<>>
    /\ UNCHANGED <<input, isLoading, uploadStatus, uploads, clearTimers, streams, now, crashed>>

clearChat ==
    /\ ~crashed
    /\ messages # <<>>
    /\ messages' = <<>>
    /\ fullOf' = <<>>
    /\ UNCHANGED <<input, isLoading, documents, uploadStatus, uploads, clearTimers,
                   streams, now, crashed>>

----------------------------------------------------------------------------
(* Specifications.  The handlers above are unbounded, as the code is; each          *)
(* specification bounds what the user and the clock do.                              *)

MaxDocs == 2
MaxNow == 1

RandomOf(n) == [1..n -> RandomValues]

(* Spec: every file selection, uploads one at a time, and the user asks in an empty  *)
(* conversation (one exchange, then Clear Chat)                                     *)
Next ==
    \/ \E files \in FileLists :
          /\ uploads = <<>> /\ clearTimers = 0
          /\ Len(documents) + Len(files) <= MaxDocs
          /\ handleFileUpload(files)
    \/ /\ uploads # <<>>
       /\ \E t \in now..MaxNow, rnd \in RandomOf(Len(Head(uploads))) :
             handleFileUploadResume(t, rnd)
    \/ uploadStatusTimeout
    \/ \E docId \in Ids(documents) : removeDocument(docId)
    \/ \E v \in Inputs : setInput(v)
    \/ messages = <<>> /\ handleSubmit
    \/ \E k \in 1..Len(streams) : streamResponseTick(k)
    \/ clearChat

Spec == Init /\ [][Next]_vars

HistoryFileLists == {<<fileA>>}
(* one question per kind of reply met in a longer conversation, and the blank inputs *)
HistoryInputs == {<<>>, qBlank, qWhat, qHow, qHi}
HistoryMaxDocs == 1
HistoryMaxMessages == 4

(* HistorySpec: conversations of several exchanges over a short document list *)
HistoryNext ==
    \/ \E files \in HistoryFileLists :
          /\ uploads = <<>> /\ clearTimers = 0
          /\ Len(documents) + Len(files) <= HistoryMaxDocs
          /\ handleFileUpload(files)
    \/ /\ uploads # <<>>
       /\ \E t \in now..MaxNow, rnd \in RandomOf(Len(Head(uploads))) :
             handleFileUploadResume(t, rnd)
    \/ uploadStatusTimeout
    \/ \E docId \in Ids(documents) : removeDocument(docId)
    \/ \E v \in HistoryInputs : setInput(v)
    \/ Len(messages) < HistoryMaxMessages /\ handleSubmit
    \/ \E k \in 1..Len(streams) : streamResponseTick(k)
    \/ clearChat

HistorySpec == Init /\ [][HistoryNext]_vars

(* Timer callbacks that are due are eventually run by the event loop. *)
FairSpec ==
    /\ HistorySpec
    /\ WF_vars(\E k \in 1..Len(streams) : streamResponseTick(k))

UploadMaxDocs == 3
MaxPending == 2

RECURSIVE PendingFiles(_)
PendingFiles(ups) == IF ups = <<>> THEN 0 ELSE Len(Head(ups)) + PendingFiles(Tail(ups))

(* UploadSpec: the document sidebar alone, with uploads that overlap: a selection   *)
(* can be made while an earlier upload is in its delay or its status timer runs     *)
UploadNext ==
    \/ \E files \in FileLists :
          /\ Len(uploads) + clearTimers < MaxPending
          /\ Len(documents) + PendingFiles(uploads) + Len(files) <= UploadMaxDocs
          /\ handleFileUpload(files)
    \/ /\ uploads # <<>>
       /\ \E t \in now..MaxNow, rnd \in RandomOf(Len(Head(uploads))) :
             handleFileUploadResume(t, rnd)
    \/ uploadStatusTimeout
    \/ \E docId \in Ids(documents) : removeDocument(docId)

UploadSpec == Init /\ [][UploadNext]_vars

----------------------------------------------------------------------------
(* Vocabulary of the properties *)

IsPrefix(a, b) == Len(a) <= Len(b) /\ SubSeq(b, 1, Len(a)) = a

Elems(seq) == {seq[k] : k \in 1..Len(seq)}

FileNames == {fileA.name, fileB.name, fileC.name}

Names(docs) == {docs[k].name : k \in 1..Len(docs)}

AssistantTurns == {k \in 1..Len(messages) : messages[k].role = "assistant"}

(* a reply that asks the user to be more specific instead of answering *)
IsClarification(text) == Elems(text) \cap {SpecificQ, ClarifyQ} # {}

(* a reply that says that there are no documents to answer from *)
IsNoDocuments(text) ==
    text # <<>> /\ text[1] \in
        {"I don't have any documents uploaded yet.",
         "I'd be happy to explain, but I don't have any reference documents yet.",
         "I need documents to summarize.",
         "I'm your team's knowledge copilot! To get started:"}

(* the step is an accepted submission: it appends the user and the assistant turn *)
Submitted == Len(messages') = Len(messages) + 2

LastTurn == messages[Len(messages)]

----------------------------------------------------------------------------
(* C1. Confidence routing: an assistant turn whose reply is a clarification request *)
(* records a confidence below the 0.7 threshold; a turn recorded at or above the    *)
(* threshold is a direct answer.                                                    *)
C1_ConfidenceRouting ==
    \A k \in AssistantTurns :
        IsClarification(fullOf[k]) => messages[k].metadata.confidence < Threshold

(* C2. No fabricated answer: a submission made while the document list is empty     *)
(* yields a no-documents message with no sources and a confidence below 0.7.        *)
C2_NoFabricatedAnswer ==
    [][(Submitted /\ documents = <<>>) =>
          /\ IsNoDocuments(fullOf'[Len(fullOf')])
          /\ LastTurn'.metadata.sources = <<>>
          /\ LastTurn'.metadata.confidence < Threshold]_vars

(* C3. Deletion is complete: removeDocument(d) leaves no document with id d in the  *)
(* list, only the completion of an upload puts an id into the list, and the turn of *)
(* every submission cites, as source and in its text, only names of documents that  *)
(* are in the list at that moment.                                                  *)
CitedNames(k) ==
    Elems(messages[k].metadata.sources) \cup (Elems(fullOf[k]) \cap FileNames)

C3_DeletionComplete ==
    [][/\ \A d \in Ids(documents) : removeDocument(d) => d \notin Ids(documents')
       /\ ~(Ids(documents') \subseteq Ids(documents)) =>
             uploads # <<>> /\ uploads' = Tail(uploads)
       /\ Submitted => CitedNames(Len(messages))' \subseteq Names(documents')]_vars

(* fileC is uploaded behind fileB: it is the first document only once fileB is removed *)
C3_Witness ==
    /\ \E k \in AssistantTurns :
          /\ messages[k].metadata.sources = <<fileC.name>>
          /\ fileC.name \in Elems(fullOf[k])

(* C4. The conversation is append-only: the message list before a step is a prefix  *)
(* (same turns in the same order, the content of a turn possibly extended) of the   *)
(* message list after it.                                                           *)
SameTurn(a, b) ==
    /\ a.role = b.role
    /\ IsPrefix(a.content, b.content)
    /\ a.role = "assistant" => a.metadata = b.metadata

PrefixOfTurns(a, b) ==
    /\ Len(a) <= Len(b)
    /\ \A k \in 1..Len(a) : SameTurn(a[k], b[k])

C4_AppendOnly == [][PrefixOfTurns(messages, messages')]_vars

(* C4 as amended: every step other than clearChat keeps the message list a prefix   *)
(* of the next one; clearChat removes every turn.                                   *)
C4_AppendOnlyButClear ==
    [][\/ PrefixOfTurns(messages, messages')
       \/ clearChat /\ messages' = <<>>]_vars

C4_Witness == Len(messages) = 4 /\ ~isLoading

(* C5. One snapshot of the documents: sources and reply text of a turn are computed *)
(* from the documents of the moment of submission; a change of the document list    *)
(* changes neither the messages nor the text being streamed, and every tick writes  *)
(* a prefix of the text generated at submission.                                    *)
C5_ConsistentSnapshot ==
    [][/\ Submitted =>
            /\ fullOf'[Len(fullOf')] = generateAIResponse(input, messages, documents)
            /\ LastTurn'.metadata = assistantMessage(documents).metadata
       /\ documents' # documents => UNCHANGED <<messages, streams>>
       /\ \A k \in AssistantTurns' :
            /\ IsPrefix(messages'[k].content, fullOf'[k])
            /\ k <= Len(messages) => messages'[k].metadata = messages[k].metadata]_vars

C5_Witness ==
    /\ isLoading /\ messages # <<>>
    /\ LastTurn.content # <<>>
    /\ LastTurn.metadata.sources # assistantMessage(documents).metadata.sources
    /\ fullOf[Len(fullOf)] #
          generateAIResponse(messages[Len(messages) - 1].content, <<>>, documents)

(* C6. Queries are sequential: at most one streamResponse is in progress, and while *)
(* isLoading is true no step appends a turn or starts a stream.                     *)
C6_Sequential ==
    [][/\ Len(streams') <= 1
       /\ streams' # <<>> => isLoading'
       /\ isLoading => Len(messages') <= Len(messages) /\ Len(streams') <= Len(streams)]_vars

C6_Witness ==
    /\ isLoading /\ Len(streams) = 1 /\ streams[1].i >= 1
    /\ Len(messages) = 2
    /\ ENABLED handleSubmit

(* C7. Every stream finishes: with timer callbacks scheduled fairly, a submission   *)
(* is followed by a state in which the assistant turn holds the complete response   *)
(* and isLoading is false.                                                          *)
Finished ==
    /\ ~isLoading
    /\ messages # <<>>
    /\ LastTurn.role = "assistant"
    /\ LastTurn.content = fullOf[Len(fullOf)]

C7_EveryStreamFinishes == isLoading ~> Finished

(* C8. Streaming only appends: the content of an assistant turn is a prefix of its  *)
(* full response, a tick extends the content of the turn it writes by exactly one   *)
(* unit, and no step shortens or rewrites the content of a turn that stays.         *)
C8_StreamingAppends ==
    [][/\ \A k \in AssistantTurns' : IsPrefix(messages'[k].content, fullOf'[k])
       /\ \A k \in 1..Len(messages) :
            k <= Len(messages') =>
               /\ IsPrefix(messages[k].content, messages'[k].content)
               /\ messages'[k].content # messages[k].content =>
                     Len(messages'[k].content) = Len(messages[k].content) + 1
       /\ (streams' # streams /\ Len(messages') = Len(messages) /\ messages # <<>>) =>
            Len(LastTurn'.content) = Len(LastTurn.content) + 1]_vars

C8_Witness ==
    /\ isLoading /\ messages # <<>>
    /\ Len(LastTurn.content) >= 2
    /\ Len(LastTurn.content) < Len(fullOf[Len(fullOf)])

(* C9. Finalized turns are immutable: a user turn, and an assistant turn whose      *)
(* content equals its complete response, is changed by no step that keeps it.       *)
Finalized(k) ==
    \/ messages[k].role = "user"
    \/ messages[k].content = fullOf[k]

C9_FinalizedImmutable ==
    [][\A k \in 1..Len(messages) :
          (k <= Len(messages') /\ Finalized(k)) => messages'[k] = messages[k]]_vars

C9_Witness ==
    /\ Len(messages) = 4 /\ isLoading
    /\ messages[2].content = fullOf[2]
    /\ messages[4].content # <<>>

MaxContextSize == 4000

RECURSIVE ContextLength(_)
ContextLength(docs) ==
    IF docs = <<>> THEN 0 ELSE Head(docs).size + ContextLength(Tail(docs))

(* the only reply of generateAIResponse that summarizes (lines 90-95) *)
IsSummary(text) == text # <<>> /\ text[1] = "**Summary of "

(* C11. Context-size routing: a submission whose documents hold more than           *)
(* MaxContextSize characters yields a summarize-then-answer reply, also when the    *)
(* recorded confidence is at or above the threshold.                                *)
C11_ContextSizeRouting ==
    [][(Submitted /\ ContextLength(documents) > MaxContextSize) =>
          IsSummary(fullOf'[Len(fullOf')])]_vars

(* the formats the file input asks for (accept=".pdf,.md,.txt", line 147) *)
SupportedTypes == {"application/pdf", "text/markdown", "text/plain"}

Unsupported(files) == {k \in 1..Len(files) : files[k].type \notin SupportedTypes}

(* the step is the completion of the oldest pending upload *)
Completed == uploads # <<>> /\ uploads' = Tail(uploads)

(* C12. Unsupported formats are rejected: no step puts a file of an unsupported     *)
(* type into the document list, and the completion of an upload that holds such a  *)
(* file sets an upload status of type 'error'.                                      *)
C12_UnsupportedRejected ==
    [][/\ Unsupported(documents') = {}
       /\ (Completed /\ Unsupported(Head(uploads)) # {}) => uploadStatus'.type = "error"]_vars

(* every id an upload can give within the clock's range *)
IdRange == 0..((MaxNow + 1) * RandomSpan - 1)

(* C13. Documents are immutable except for deletion: a removeDocument step removes  *)
(* exactly one entry, the one with the id given, and leaves the others as they were *)
(* and in their order; filtering by an id that is not in the list changes nothing;  *)
(* every other step leaves the documents it finds in place, unchanged.              *)
C13_OnlyDeletionRemoves ==
    [][/\ \A d \in Ids(documents) :
            removeDocument(d) =>
               \E k \in 1..Len(documents) :
                  documents[k].id = d /\ documents' = RemoveAt(documents, k)
       /\ \A d \in IdRange \ Ids(documents) : filterOut(documents, d) = documents
       /\ (\A d \in Ids(documents) : ~removeDocument(d)) => IsPrefix(documents, documents')]_vars

(* C14. Document identifiers are unique: no two entries of the document list have  *)
(* the same id.                                                                     *)
C14_UniqueIds ==
    \A j, k \in 1..Len(documents) : documents[j].id = documents[k].id => j = k

SidebarChanged == <<documents, uploadStatus, uploads, clearTimers>>' #
                     <<documents, uploadStatus, uploads, clearTimers>>

ChatChanged == <<messages, input, isLoading, streams>>' # <<messages, input, isLoading, streams>>

IsHowQuestion(q) == IsPrefix(kwHow, toLowerCase(trim(q)))

(* C17. Single-document scenario: the turn of a submission made while exactly one   *)
(* document is listed has that document as its only source and a confidence at or   *)
(* above the threshold, and when the question is a 'how' question its reply is not  *)
(* a clarification request.                                                         *)
C17_SingleDocument ==
    [][(Submitted /\ Len(documents) = 1) =>
          /\ LastTurn'.metadata.sources = <<documents[1].name>>
          /\ LastTurn'.metadata.confidence >= Threshold
          /\ IsHowQuestion(input) => ~IsClarification(fullOf'[Len(fullOf')])]_vars

(* empty, or nothing but whitespace *)
IsBlank(s) == \A k \in 1..Len(s) : s[k] \in Whitespace

(* C18. Input validation: in a state whose input is empty or only whitespace no     *)
(* step appends a turn, starts a stream or sets isLoading, and handleSubmit leaves  *)
(* messages, input, isLoading and the streams as they are.                          *)
C18_BlankInputIgnored ==
    [][IsBlank(input) =>
          /\ Len(messages') <= Len(messages)
          /\ Len(streams') <= Len(streams)
          /\ isLoading' => isLoading
          /\ handleSubmit => UNCHANGED <<messages, input, isLoading, streams>>]_vars

(* Enter is pressed on an input of one space, after an exchange has finished *)
C18_Witness ==
    /\ input = qBlank
    /\ ~isLoading
    /\ Len(messages) = 2
    /\ ENABLED handleSubmit

(* C19. A streaming tick has its own assistant turn to write to: while a stream is  *)
(* in progress the message list is non-empty and ends with the assistant turn of    *)
(* that stream, and no tick has raised an error.                                    *)
C19_TickHasItsTurn ==
    /\ ~crashed
    /\ \A k \in 1..Len(streams) :
          /\ messages # <<>>
          /\ LastTurn.role = "assistant"
          /\ IsPrefix(LastTurn.content, streams[k].fullResponse)

(* C20. While an upload is in its processing delay the upload status is of type    *)
(* 'loading'.                                                                       *)
C20_LoadingWhilePending ==
    uploads # <<>> => uploadStatus.type = "loading"

(* C21. The message list alternates user and assistant turns, starts with a user   *)
(* turn and has even length; an accepted submission appends, in one step, one user  *)
(* turn holding the submitted input and behind it one assistant turn.               *)
Alternates(msgs) ==
    /\ Len(msgs) % 2 = 0
    /\ \A k \in 1..Len(msgs) :
          msgs[k].role = IF k % 2 = 1 THEN "user" ELSE "assistant"

C21_Alternation ==
    [][/\ Alternates(messages')
       /\ Len(messages') > Len(messages) =>
             /\ Len(messages') = Len(messages) + 2
             /\ SubSeq(messages', 1, Len(messages)) = messages
             /\ messages'[Len(messages) + 1] = [role |-> "user", content |-> input]
             /\ messages'[Len(messages) + 2].role = "assistant"]_vars

(* the second submission has just been accepted: its two turns are there at once *)
C21_Witness ==
    /\ Len(messages) = 4
    /\ messages[1].content = qHi
    /\ messages[3].content = qHow
    /\ messages[4].content = <<>>

(* C22. No partial reply while the input is enabled: in a state in which isLoading  *)
(* is false, the content of every assistant turn is its complete response.          *)
C22_NoPartialReply ==
    ~isLoading => \A k \in AssistantTurns : messages[k].content = fullOf[k]

(* two replies of several units have been streamed to their end *)
C22_Witness ==
    /\ ~isLoading
    /\ Len(messages) = 4
    /\ \A k \in AssistantTurns : Len(messages[k].content) >= 4 /\ messages[k].content = fullOf[k]

(* C23. The reply depends only on the question and the documents: whatever the      *)
(* conversation so far, the text generated for a submission and the sources and     *)
(* confidence recorded for it are those of the same question over the same          *)
(* documents in an empty conversation, and in any other conversation.               *)
Histories == {<<>>, messages, SubSeq(messages, 1, Len(messages) - 1)}

====
